---- MODULE Spec2Model ----
(***************************************************************************)
(* A model of the in-toto-golang core: the canonical JSON encoder, the key *)
(* identifier derivation, the signature engine (rsa, ecdsa, ed25519) and   *)
(* the Metablock envelope.                                                 *)
(*                                                                         *)
(* Go strings and []byte are sequences of byte values (0..255).  Go errors *)
(* are TLA+ strings naming the sentinel the error is or wraps ("nil" for   *)
(* no error); a panic is an outcome of its own, named "panic: ...".        *)
(***************************************************************************)
EXTENDS Integers, Sequences, FiniteSets, TLC

VARIABLES
  encIn,      \* canonical encoder: the value last encoded
  encOut,     \* canonical encoder: the bytes written for encIn
  encPrevOut, \* canonical encoder: the bytes written for the same pairs in the order before
  encOp,      \* canonical encoder: "input", "encode", or "reorder" (the value before, its maps reordered)
  key,        \* key store: the Key object under construction
  keyPrev,    \* key store: the Key before the last operation
  keyOp,      \* key store: the last operation and the error it returned
  sgKey,      \* signature engine: the Key given to the last call
  sgData,     \* signature engine: the payload given to the last call
  sgSig,      \* signature engine: the Signature produced or under verification
  sgErr,      \* signature engine: the error of the last GenerateSignature
  sgRnd,      \* signature engine: what the random source and primitives gave that call
  sgVerify,   \* signature engine: the outcome of the last VerifySignature
  sgOp,       \* signature engine: the last operation
  mb,         \* metablock: the Metablock object (Signed, Signatures)
  mbSigner,   \* metablock: the Key whose signature of Signed the caller attached last
  mbKey,      \* metablock: the Key object the caller fills with Key.Load
  mbOp        \* metablock: the last operation, its input and its outcome

encVars == <<encIn, encOut, encPrevOut, encOp>>
keyVars == <<key, keyPrev, keyOp>>
sgVars  == <<sgKey, sgData, sgSig, sgErr, sgRnd, sgVerify, sgOp>>
mbVars  == <<mb, mbSigner, mbKey, mbOp>>
vars    == <<encVars, keyVars, sgVars, mbVars>>

(***************************************************************************)
(* Byte strings                                                            *)
(***************************************************************************)
Range(s) == {s[i] : i \in 1..Len(s)}

\* s < t in Go's string ordering: byte-wise lexicographic
RECURSIVE StrLess(_, _)
StrLess(s, t) ==
  IF t = <<>> THEN FALSE
  ELSE IF s = <<>> THEN TRUE
  ELSE IF Head(s) # Head(t) THEN Head(s) < Head(t)
  ELSE StrLess(Tail(s), Tail(t))

\* sort.Strings: the increasing arrangement of a list of strings
RECURSIVE InsertSorted(_, _)
InsertSorted(x, sorted) ==
  IF sorted = <<>> THEN <<x>>
  ELSE IF StrLess(Head(sorted), x) THEN <<Head(sorted)>> \o InsertSorted(x, Tail(sorted))
  ELSE <<x>> \o sorted

RECURSIVE SortStrings(_)
SortStrings(keys) ==
  IF keys = <<>> THEN <<>> ELSE InsertSorted(Head(keys), SortStrings(Tail(keys)))

(***************************************************************************)
(* Canonical values.  A Go interface{} value is a record [t, v]: t names   *)
(* the dynamic type and v holds the value.  A map[string]interface{} is    *)
(* the sequence of its [k, v] entries in the order `range` visits them,    *)
(* which Go leaves unspecified: every order is an input.                   *)
(***************************************************************************)
StringVal(s) == [t |-> "string", v |-> s]
BoolVal(b)   == [t |-> "bool", v |-> b]
IntVal(n)    == [t |-> "int", v |-> n]
FloatVal(n)  == [t |-> "float64", v |-> n]
NilVal       == [t |-> "nil", v |-> 0]
ListVal(l)   == [t |-> "list", v |-> l]
MapVal(m)    == [t |-> "map", v |-> m]
Entry(k, v)  == [k |-> k, v |-> v]

\* the value stored under key k of a map (objAsserted[key])
MapGet(m, k) == m[CHOOSE i \in 1..Len(m) : m[i].k = k].v

\* regexp `(["])` replaced by `\$1`: every double quote gets a backslash before it
RECURSIVE EscapeQuotes(_)
EscapeQuotes(s) ==
  IF s = <<>> THEN <<>>
  ELSE IF Len(s) = 1 THEN (IF s[1] = 34 THEN <<92, 34>> ELSE s)
  ELSE EscapeQuotes(SubSeq(s, 1, Len(s) \div 2)) \o EscapeQuotes(SubSeq(s, Len(s) \div 2 + 1, Len(s)))

_encode_canonical_string(s) == <<34>> \o EscapeQuotes(s) \o <<34>>

\* Go's string(n) of an int n: the UTF-8 encoding of the code point n,
\* U+FFFD for what is no valid code point
RuneToString(n) ==
  IF n < 0 \/ n > 1114111 \/ (n >= 55296 /\ n <= 57343) THEN <<239, 191, 189>>
  ELSE IF n < 128 THEN <<n>>
  ELSE IF n < 2048 THEN <<192 + (n \div 64), 128 + (n % 64)>>
  ELSE IF n < 65536
    THEN <<224 + (n \div 4096), 128 + ((n \div 64) % 64), 128 + (n % 64)>>
  ELSE <<240 + (n \div 262144), 128 + ((n \div 4096) % 64), 128 + ((n \div 64) % 64),
         128 + (n % 64)>>

\* the keys of a map in the order the range loop appends them
MapKeysOf(m) == [i \in 1..Len(m) |-> m[i].k]

\* a slip: the keys are walked in the order the range loop gave them
UnsortedMapKeys(m) == MapKeysOf(m)

\* the key order the encoder walks: mapKeys after sort.Strings(mapKeys)
SortedMapKeys(m) == SortStrings(MapKeysOf(m))

RECURSIVE _encode_canonical(_)
RECURSIVE EncodeList(_, _)
RECURSIVE EncodeMap(_, _, _)

\* the loop over a []interface{}: element i, then "," unless it is the last
EncodeList(l, i) ==
  IF i > Len(l) THEN <<>>
  ELSE _encode_canonical(l[i])
       \o (IF i - 1 < Len(l) - 1 THEN <<44>> ELSE <<>>)
       \o EncodeList(l, i + 1)

\* the loop over mapKeys: key, ":", value, then "," unless it is the last
EncodeMap(m, mapKeys, i) ==
  IF i > Len(mapKeys) THEN <<>>
  ELSE _encode_canonical(StringVal(mapKeys[i]))
       \o <<58>>
       \o _encode_canonical(MapGet(m, mapKeys[i]))
       \o (IF i - 1 < Len(mapKeys) - 1 THEN <<44>> ELSE <<>>)
       \o EncodeMap(m, mapKeys, i + 1)

\* the bytes _encode_canonical appends to result for obj
_encode_canonical(obj) ==
  CASE obj.t = "string" -> _encode_canonical_string(obj.v)
    [] obj.t = "bool" -> IF obj.v THEN <<116, 114, 117, 101>> ELSE <<102, 97, 108, 115, 101>>
    [] obj.t = "int" -> RuneToString(obj.v)
    [] obj.t = "nil" -> <<110, 117, 108, 108>>
    [] obj.t = "list" -> <<91>> \o EncodeList(obj.v, 1) \o <<93>>
    [] obj.t = "map" -> <<123>> \o EncodeMap(obj.v, SortedMapKeys(obj.v), 1) \o <<125>>
    [] OTHER -> <<>>

\* the decimal ASCII digits of a natural number, no leading zeros
RECURSIVE Digits(_)
Digits(n) == IF n < 10 THEN <<48 + n>> ELSE Digits(n \div 10) \o <<48 + (n % 10)>>

\* the decimal form of an integer: a minus sign before the digits of a negative one
Decimal(n) == IF n < 0 THEN <<45>> \o Digits(0 - n) ELSE Digits(n)

(***************************************************************************)
(* encoding/hex                                                            *)
(***************************************************************************)
HexDigit(d) == IF d < 10 THEN 48 + d ELSE 87 + d

\* hex.EncodeToString, and fmt.Sprintf("%x", bytes): two lowercase digits a byte
EncodeToString(b) ==
  [i \in 1..(2 * Len(b)) |->
     IF i % 2 = 1 THEN HexDigit(b[(i + 1) \div 2] \div 16) ELSE HexDigit(b[i \div 2] % 16)]

\* the value of a hex digit of either case, -1 for any other byte
FromHexChar(c) ==
  IF c >= 48 /\ c <= 57 THEN c - 48
  ELSE IF c >= 97 /\ c <= 102 THEN c - 87
  ELSE IF c >= 65 /\ c <= 70 THEN c - 55
  ELSE -1

\* hex.DecodeString: the bytes decoded before the first error, and the error
DecodeString(s) ==
  LET pairs == Len(s) \div 2
      badPair(j) == FromHexChar(s[2 * j - 1]) = -1 \/ FromHexChar(s[2 * j]) = -1
      bad == {j \in 1..pairs : badPair(j)}
      \* the pairs decoded before the loop stops
      n == IF bad = {} THEN pairs ELSE (CHOOSE j \in bad : \A j2 \in bad : j <= j2) - 1
  IN [bytes |-> [j \in 1..n |-> 16 * FromHexChar(s[2 * j - 1]) + FromHexChar(s[2 * j])],
      err |-> IF bad # {} THEN "hex.InvalidByteError"
              ELSE IF Len(s) % 2 = 1
                THEN (IF FromHexChar(s[Len(s)]) = -1 THEN "hex.InvalidByteError"
                      ELSE "hex.ErrLength")
              ELSE "nil"]

(***************************************************************************)
(* strings.TrimSpace                                                       *)
(***************************************************************************)
\* unicode.IsSpace on the UTF-8 bytes of one rune: the ASCII white space,
\* U+0085, U+00A0, U+1680, U+2000..U+200A, U+2028, U+2029, U+202F, U+205F, U+3000
IsSpace(r) ==
  \/ (Len(r) = 1 /\ r[1] \in {9, 10, 11, 12, 13, 32})
  \/ (Len(r) = 2 /\ r[1] = 194 /\ r[2] \in {133, 160})
  \/ (Len(r) = 3 /\ r[1] = 226 /\ r[2] = 128 /\ r[3] \in (128..138) \cup {168, 169, 175})
  \/ r \in {<<225, 154, 128>>, <<226, 129, 159>>, <<227, 128, 128>>}

\* the number of bytes of the white space rune s begins with, 0 if it begins with none
LeadingSpace(s) ==
  IF \E n \in 1..3 : n <= Len(s) /\ IsSpace(SubSeq(s, 1, n))
  THEN CHOOSE n \in 1..3 : n <= Len(s) /\ IsSpace(SubSeq(s, 1, n))
  ELSE 0

\* the number of bytes of the white space rune s ends with, 0 if it ends with none
TrailingSpace(s) ==
  IF \E n \in 1..3 : n <= Len(s) /\ IsSpace(SubSeq(s, Len(s) - n + 1, Len(s)))
  THEN CHOOSE n \in 1..3 : n <= Len(s) /\ IsSpace(SubSeq(s, Len(s) - n + 1, Len(s)))
  ELSE 0

RECURSIVE TrimLeft(_)
TrimLeft(s) ==
  IF LeadingSpace(s) > 0 THEN TrimLeft(SubSeq(s, LeadingSpace(s) + 1, Len(s))) ELSE s

RECURSIVE TrimRight(_)
TrimRight(s) ==
  IF TrailingSpace(s) > 0 THEN TrimRight(SubSeq(s, 1, Len(s) - TrailingSpace(s))) ELSE s

TrimSpace(s) == TrimRight(TrimLeft(s))

(***************************************************************************)
(* crypto/sha256.  The digest is a stand-in: a deterministic mixing of the *)
(* input into Size bytes.                                                  *)
(***************************************************************************)
Size == 32

RECURSIVE MixRange(_, _, _, _)
MixRange(data, lo, hi, seed) ==
  IF lo > hi THEN seed
  ELSE IF lo = hi THEN ((data[lo] + 1) * (seed + lo)) % 65521
  ELSE LET mid == (lo + hi) \div 2
       IN (MixRange(data, lo, mid, seed) * 31 + MixRange(data, mid + 1, hi, seed) + hi) % 65521

Mix(data, seed) == MixRange(data, 1, Len(data), seed)

Spread(h) == [i \in 1..Size |-> (h + i * ((h \div 256) + 1)) % 256]

Sum256(data) == Spread(Mix(data, 7))

(***************************************************************************)
(* Key material.  A key pair is a family and a number; the DER encodings   *)
(* and their PEM framing are stand-ins that keep what the parsers tell     *)
(* apart: the framing, the container (PKCS8, PKCS1, PKIX), the family and  *)
(* the key.                                                                *)
(***************************************************************************)
rsaKeyType     == <<114, 115, 97>>
ecdsaKeyType   == <<101, 99, 100, 115, 97>>
ed25519KeyType == <<101, 100, 50, 53, 53, 49, 57>>

Families == {"rsa", "ecdsa", "ed25519", "dsa"}
FamilyCode(fam) == CASE fam = "rsa" -> 1 [] fam = "ecdsa" -> 2 [] fam = "ed25519" -> 3 [] OTHER -> 4
CodeFamily(c) == CASE c = 1 -> "rsa" [] c = 2 -> "ecdsa" [] c = 3 -> "ed25519" [] OTHER -> "dsa"

PublicKey(fam, id)  == [fam |-> fam, role |-> "public", id |-> id]
PrivateKey(fam, id) == [fam |-> fam, role |-> "private", id |-> id]
NoKey == [fam |-> "none", role |-> "none", id |-> 0]

\* the DER stand-in: SEQUENCE, container (1 PKCS8, 2 PKCS1, 3 PKIX), family, key
DerPKCS8(k) == <<48, 1, FamilyCode(k.fam), k.id>>
DerPKCS1(k) == <<48, 2, FamilyCode(k.fam), k.id>>
\* x509.MarshalPKIXPublicKey
MarshalPKIXPublicKey(k) == <<48, 3, FamilyCode(k.fam), k.id>>

WellFormedDer(d) == Len(d) = 4 /\ d[1] = 48 /\ d[3] \in 1..4 /\ d[4] > 0

ParsePKCS8PrivateKey(d) ==
  IF WellFormedDer(d) /\ d[2] = 1 /\ d[3] \in 1..3
  THEN [key |-> PrivateKey(CodeFamily(d[3]), d[4]), err |-> "nil"]
  ELSE [key |-> NoKey, err |-> "x509 error"]

ParsePKCS1PrivateKey(d) ==
  IF WellFormedDer(d) /\ d[2] = 2 /\ d[3] = 1
  THEN [key |-> PrivateKey("rsa", d[4]), err |-> "nil"]
  ELSE [key |-> NoKey, err |-> "x509 error"]

ParsePKIXPublicKey(d) ==
  IF WellFormedDer(d) /\ d[2] = 3
  THEN [key |-> PublicKey(CodeFamily(d[3]), d[4]), err |-> "nil"]
  ELSE [key |-> NoKey, err |-> "x509 error"]

\* ParseKey: PKCS8, then PKCS1, then PKIX; the first that parses wins
ParseKey(data) ==
  IF ParsePKCS8PrivateKey(data).err = "nil" THEN ParsePKCS8PrivateKey(data)
  ELSE IF ParsePKCS1PrivateKey(data).err = "nil" THEN ParsePKCS1PrivateKey(data)
  ELSE IF ParsePKIXPublicKey(data).err = "nil" THEN ParsePKIXPublicKey(data)
  ELSE [key |-> NoKey, err |-> "ErrFailedPEMParsing"]

\* pem.EncodeToMemory stand-in: "-", the block bytes, "-", newline
PemEncode(bytes) == <<45>> \o bytes \o <<45, 10>>

\* pem.Decode: the first block of the text, or nil (ok = FALSE)
PemDecode(text) ==
  IF Len(text) >= 2 /\ text[1] = 45 /\ (text[Len(text)] = 45 \/ (text[Len(text)] = 10 /\ text[Len(text) - 1] = 45))
  THEN [ok |-> TRUE,
        Bytes |-> SubSeq(text, 2, IF text[Len(text)] = 45 THEN Len(text) - 1 ELSE Len(text) - 2)]
  ELSE [ok |-> FALSE, Bytes |-> <<>>]

GeneratePublicPemBlock(pubKeyBytes) == PemEncode(pubKeyBytes)

(***************************************************************************)
(* golang.org/x/crypto/ed25519 stand-in                                    *)
(***************************************************************************)
PublicKeySize  == 32
PrivateKeySize == 64
SignatureSize  == 64

EdPublic(id)  == [i \in 1..PublicKeySize |-> (37 * id + 5 * i) % 256]
EdSeed(id)    == [i \in 1..(PrivateKeySize - PublicKeySize) |-> (91 * id + 3 * i) % 256]
\* an ed25519.PrivateKey: the seed followed by the public key
EdPrivate(id) == EdSeed(id) \o EdPublic(id)

EdBind(pub, h) ==
  [i \in 1..SignatureSize |-> (pub[((i - 1) % PublicKeySize) + 1] + h + i) % 256]

EdSignatureFor(pub, message) == EdBind(pub, Mix(message, 11))

\* ed25519.Sign panics on a private key of the wrong length
EdSign(privateKey, message) ==
  IF Len(privateKey) # PrivateKeySize
  THEN [panic |-> TRUE, sig |-> <<>>]
  ELSE [panic |-> FALSE,
        sig |-> EdSignatureFor(SubSeq(privateKey, PrivateKeySize - PublicKeySize + 1, PrivateKeySize),
                               message)]

\* ed25519.Verify panics on a public key of the wrong length
EdVerify(publicKey, message, sig) ==
  IF Len(publicKey) # PublicKeySize
  THEN [panic |-> TRUE, ok |-> FALSE]
  ELSE [panic |-> FALSE,
        ok |-> Len(sig) = SignatureSize /\ sig = EdSignatureFor(publicKey, message)]

(***************************************************************************)
(* crypto/rsa, crypto/ecdsa and encoding/asn1 stand-ins.  A signature is   *)
(* bound to the key pair, to the digest and to the randomness drawn; the   *)
(* verifier recomputes it from the public key.                             *)
(***************************************************************************)
\* rsa.SignPSS: the salt drawn, then bytes bound to the digest, key and salt
SignPSS(id, hashed, salt) ==
  <<salt>> \o [i \in 1..3 |-> (hashed[i] + 17 * id + salt * i) % 256]

\* rsa.VerifyPSS: TRUE when the signature verifies
VerifyPSS(id, hashed, sig) ==
  /\ Len(sig) = 4
  /\ \A i \in 1..3 : sig[i + 1] = (hashed[i] + 17 * id + sig[1] * i) % 256

\* ecdsa.Sign: r from the nonce drawn, s bound to the digest, key and r
EcdsaSign(id, hashed, nonce) ==
  [R |-> nonce, S |-> ((hashed[1] + 29 * id + nonce) % 251) + 1]

\* a *big.Int in 0..255 as its minimal big-endian two's complement bytes
BigIntBytes(n) == IF n < 128 THEN <<n>> ELSE <<0, n>>

\* a *big.Int, given by its bytes, lies in 1..255, the range of r and s
InGroup(x) ==
  \/ (Len(x) = 1 /\ x[1] >= 1 /\ x[1] < 128)
  \/ (Len(x) = 2 /\ x[1] = 0 /\ x[2] >= 128)

\* ecdsa.Verify, r and s given by their bytes: out of range is no signature
EcdsaVerify(id, hashed, r, s) ==
  /\ InGroup(r)
  /\ InGroup(s)
  /\ s[Len(s)] = ((hashed[1] + 29 * id + r[Len(r)]) % 251) + 1

\* DER of an INTEGER in 0..255: tag, length, minimal two's complement
DerInteger(n) == <<2, Len(BigIntBytes(n))>> \o BigIntBytes(n)

\* asn1.Marshal(EcdsaSignature{R, S}): SEQUENCE of two INTEGERs
MarshalEcdsaSignature(sig) ==
  <<48, Len(DerInteger(sig.R)) + Len(DerInteger(sig.S))>> \o DerInteger(sig.R) \o DerInteger(sig.S)

\* one INTEGER at position pos of b: tag 2, a length in short form (a long
\* form names 128 bytes or more, which no input here holds), content that
\* is not empty and minimally encoded. val is the content, the big.Int's
\* two's complement bytes.
ParseDerInteger(b, pos) ==
  LET bad == [ok |-> FALSE, val |-> <<>>, next |-> pos]
  IN IF pos + 1 > Len(b) \/ b[pos] # 2 \/ b[pos + 1] >= 128 THEN bad
     ELSE LET n == b[pos + 1]
              content == SubSeq(b, pos + 2, pos + 1 + n)
          IN IF n = 0 \/ pos + 1 + n > Len(b) THEN bad
             ELSE IF n > 1 /\ ((content[1] = 0 /\ content[2] < 128)
                               \/ (content[1] = 255 /\ content[2] >= 128))
               THEN bad
             ELSE [ok |-> TRUE, val |-> content, next |-> pos + 2 + n]

\* asn1.Unmarshal into an EcdsaSignature: a SEQUENCE that begins with two
\* INTEGERs. What follows them inside the SEQUENCE is allowed and ignored;
\* what follows the SEQUENCE is the rest and is dropped.
UnmarshalEcdsaSignature(b) ==
  LET bad == [ok |-> FALSE, R |-> <<>>, S |-> <<>>]
  IN IF Len(b) < 2 \/ b[1] # 48 \/ b[2] >= 128 \/ Len(b) < 2 + b[2] THEN bad
     ELSE LET body == SubSeq(b, 3, 2 + b[2])
              r == ParseDerInteger(body, 1)
              s == ParseDerInteger(body, r.next)
          IN IF r.ok /\ s.ok
             THEN [ok |-> TRUE, R |-> r.val, S |-> s.val]
             ELSE bad

(***************************************************************************)
(* Key and Signature                                                       *)
(***************************************************************************)
MakeKey(keyId, algos, keyType, private, public, scheme) ==
  [KeyId |-> keyId, KeyIdHashAlgorithms |-> algos, KeyType |-> keyType,
   KeyVal |-> [Private |-> private, Public |-> public], Scheme |-> scheme]

ZeroKey == MakeKey(<<>>, <<>>, <<>>, <<>>, <<>>, <<>>)

MakeSignature(keyId, sig) == [KeyId |-> keyId, Sig |-> sig]
ZeroSignature == MakeSignature(<<>>, <<>>)

(***************************************************************************)
(* The canonical encoder as a state machine: encode_canonical is called on *)
(* a value, or on the value last encoded with the entries of its maps      *)
(* visited in another order.                                               *)
(***************************************************************************)
MaxMapLen == 2

EncKeys == {<<97>>, <<66>>, <<97, 98>>, <<97, 34>>, <<>>}
EncAtoms == {StringVal(<<97, 34, 98>>), BoolVal(TRUE), BoolVal(FALSE), NilVal, IntVal(7),
             FloatVal(1)}
             \cup {IntVal(n) : n \in {0, 1, 65, 300, 2048, 8364, 55296, 65536, -1, -2}}

\* the maps of at most n entries with distinct keys from K and values from V
MapsOver(K, V, n) ==
  UNION {{MapVal([i \in 1..len |-> Entry(ks[i], vs[i])]) :
            ks \in {f \in [1..len -> K] : \A i, j \in 1..len : i # j => f[i] # f[j]},
            vs \in [1..len -> V]} : len \in 0..n}

EncInner == {NilVal, BoolVal(TRUE)}
EncNested == MapsOver({<<98>>, <<97>>}, EncInner, 2)
             \cup {ListVal(<<>>), ListVal(<<NilVal>>), ListVal(<<BoolVal(TRUE), StringVal(<<97>>)>>),
                   ListVal(<<MapVal(<<Entry(<<98>>, NilVal), Entry(<<97>>, NilVal)>>)>>)}
EncOuter == {NilVal, IntVal(7), ListVal(<<NilVal>>),
             MapVal(<<Entry(<<98>>, NilVal), Entry(<<97>>, BoolVal(TRUE))>>)}
EncValues == EncAtoms \cup EncNested \cup MapsOver(EncKeys, EncOuter, MaxMapLen)

Orderings(n) == {p \in [1..n -> 1..n] : \A i, j \in 1..n : i # j => p[i] # p[j]}

\* obj with the entries of its top-level map, or of a map one level below,
\* visited in another order
Reorderings(obj) ==
  IF obj.t # "map" THEN {obj}
  ELSE LET m == obj.v
           n == Len(m)
           inner(e) == IF e.v.t = "map"
                       THEN {Entry(e.k, MapVal([i \in 1..Len(e.v.v) |-> e.v.v[q[i]]])) :
                               q \in Orderings(Len(e.v.v))}
                       ELSE {e}
       IN {MapVal([i \in 1..n |-> es[p[i]]]) :
             p \in Orderings(n),
             es \in {f \in [1..n -> UNION {inner(m[i]) : i \in 1..n}] :
                       \A i \in 1..n : f[i] \in inner(m[i])}}

EncInit ==
  /\ encIn \in EncValues
  /\ encOut = <<>>
  /\ encPrevOut = <<>>
  /\ encOp = "input"

\* encode_canonical(obj)
EncodeValue ==
  /\ encOp = "input"
  /\ encOut' = _encode_canonical(encIn)
  /\ encOp' = "encode"
  /\ UNCHANGED <<encIn, encPrevOut>>

\* encode_canonical of the same pairs, the maps built in another order
EncodeReordered ==
  /\ encOp # "input"
  /\ \E obj \in Reorderings(encIn) :
       /\ encIn' = obj
       /\ encOut' = _encode_canonical(obj)
       /\ encPrevOut' = encOut
       /\ encOp' = "reorder"

EncNext == EncodeValue \/ EncodeReordered

\* the parts of the state a specification leaves out stay at these values
EncIdle == encIn = 0 /\ encOut = 0 /\ encPrevOut = 0 /\ encOp = 0
KeyIdle == key = 0 /\ keyPrev = 0 /\ keyOp = 0
SgIdle == sgKey = 0 /\ sgData = 0 /\ sgSig = 0 /\ sgErr = 0 /\ sgRnd = 0 /\ sgVerify = 0
          /\ sgOp = 0
MbIdle == mb = 0 /\ mbSigner = 0 /\ mbKey = 0 /\ mbOp = 0

InitEnc == EncInit /\ KeyIdle /\ SgIdle /\ MbIdle
NextEnc == EncNext /\ UNCHANGED <<keyVars, sgVars, mbVars>>
SpecEnc == InitEnc /\ [][NextEnc]_vars

(***************************************************************************)
(* The canonical form of a value, stated without the encoder's sort: the   *)
(* keys of a map are written smallest first.                               *)
(***************************************************************************)
MinKey(K) == CHOOSE k \in K : \A k2 \in K \ {k} : StrLess(k, k2)

RECURSIVE CanonicalForm(_)
RECURSIVE CanonicalEntries(_, _)
RECURSIVE CanonicalItems(_)
CanonicalEntries(m, K) ==
  IF K = {} THEN <<>>
  ELSE LET k == MinKey(K)
       IN <<34>> \o EscapeQuotes(k) \o <<34, 58>> \o CanonicalForm(MapGet(m, k))
          \o (IF K = {k} THEN <<>> ELSE <<44>> \o CanonicalEntries(m, K \ {k}))
CanonicalItems(l) ==
  IF l = <<>> THEN <<>>
  ELSE CanonicalForm(Head(l))
       \o (IF Tail(l) = <<>> THEN <<>> ELSE <<44>> \o CanonicalItems(Tail(l)))
CanonicalForm(obj) ==
  CASE obj.t = "map" -> <<123>> \o CanonicalEntries(obj.v, Range(MapKeysOf(obj.v))) \o <<125>>
    [] obj.t = "list" -> <<91>> \o CanonicalItems(obj.v) \o <<93>>
    [] OTHER -> _encode_canonical(obj)

\* some map of obj, at any depth, is visited in an order that is not increasing
RECURSIVE HasUnsortedMap(_)
HasUnsortedMap(obj) ==
  CASE obj.t = "map" ->
         \/ \E i \in 1..(Len(obj.v) - 1) : ~StrLess(obj.v[i].k, obj.v[i + 1].k)
         \/ \E i \in 1..Len(obj.v) : HasUnsortedMap(obj.v[i].v)
    [] obj.t = "list" -> \E i \in 1..Len(obj.v) : HasUnsortedMap(obj.v[i])
    [] OTHER -> FALSE

\* C10: the encoder writes the keys of every map, at every depth, in strictly
\* increasing byte-wise order, comma-separated with no trailing comma (its
\* output is the canonical form), so the same pairs visited in another order
\* give byte-identical output.
C10_SortedKeysOrderIndependent ==
  /\ encOp # "input" => encOut = CanonicalForm(encIn)
  /\ encOp = "reorder" => encOut = encPrevOut

\* a map with at least two entries and a nested map, both out of order,
\* re-encoded after a reordering
C10_Witness ==
  /\ encOp = "reorder"
  /\ encIn.t = "map"
  /\ Len(encIn.v) >= 2
  /\ ~StrLess(encIn.v[1].k, encIn.v[2].k)
  /\ \E i \in 1..Len(encIn.v) : encIn.v[i].v.t = "map" /\ HasUnsortedMap(encIn.v[i].v)
  /\ encOut = encPrevOut

\* C11: the encoder writes an integer n as the decimal ASCII digits of n,
\* whether it arrives as a Go int or as the float64 that JSON decoding makes
\* of it: nothing is skipped, and different integers give different output.
C11_IntegerAsDecimalDigits ==
  (encOp = "encode" /\ encIn.t \in {"int", "float64"}) => encOut = Decimal(encIn.v)

(***************************************************************************)
(* Key store                                                               *)
(***************************************************************************)
\* EncodeCanonical: the value as its JSON round trip delivers it (slices as
\* lists, string maps as maps), written by the canonical encoder
EncodeCanonical(obj) == [bytes |-> _encode_canonical(obj), err |-> "nil"]

\* validateKey: the key type is one of the three families and the public
\* part is not empty
validateKey(k) ==
  IF k.KeyType \notin {rsaKeyType, ecdsaKeyType, ed25519KeyType} THEN "ErrUnsupportedKeyType"
  ELSE IF k.KeyVal.Public = <<>> THEN "ErrEmptyKeyField"
  ELSE "nil"

StringList(l) == ListVal([i \in 1..Len(l) |-> StringVal(l[i])])

\* the partial key map, its entries in the order the literal names them
keyToBeHashed(k) ==
  MapVal(<<
    Entry(<<107, 101, 121, 116, 121, 112, 101>>, StringVal(k.KeyType)),
    Entry(<<115, 99, 104, 101, 109, 101>>, StringVal(k.Scheme)),
    Entry(<<107, 101, 121, 105, 100, 95, 104, 97, 115, 104, 95, 97, 108, 103, 111, 114, 105,
            116, 104, 109, 115>>, StringList(k.KeyIdHashAlgorithms)),
    Entry(<<107, 101, 121, 118, 97, 108>>,
          MapVal(<<Entry(<<112, 117, 98, 108, 105, 99>>, StringVal(k.KeyVal.Public))>>))>>)

\* a slip: the whole KeyVal goes into the hashed map
keyToBeHashedWithPrivate(k) ==
  MapVal(<<
    Entry(<<107, 101, 121, 116, 121, 112, 101>>, StringVal(k.KeyType)),
    Entry(<<115, 99, 104, 101, 109, 101>>, StringVal(k.Scheme)),
    Entry(<<107, 101, 121, 105, 100, 95, 104, 97, 115, 104, 95, 97, 108, 103, 111, 114, 105,
            116, 104, 109, 115>>, StringList(k.KeyIdHashAlgorithms)),
    Entry(<<107, 101, 121, 118, 97, 108>>,
          MapVal(<<Entry(<<112, 114, 105, 118, 97, 116, 101>>, StringVal(k.KeyVal.Private)),
                   Entry(<<112, 117, 98, 108, 105, 99>>, StringVal(k.KeyVal.Public))>>))>>)

GenerateKeyIdWithPrivate(k) ==
  LET keyCanonical == EncodeCanonical(keyToBeHashedWithPrivate(k))
      hashed == [k EXCEPT !.KeyId = EncodeToString(Sum256(keyCanonical.bytes))]
  IN IF keyCanonical.err # "nil" THEN [key |-> k, err |-> keyCanonical.err]
     ELSE [key |-> hashed, err |-> validateKey(hashed)]

\* (k *Key) GenerateKeyId: the key afterwards and the error returned
GenerateKeyId(k) ==
  LET keyCanonical == EncodeCanonical(keyToBeHashed(k))
      hashed == [k EXCEPT !.KeyId = EncodeToString(Sum256(keyCanonical.bytes))]
  IN IF keyCanonical.err # "nil" THEN [key |-> k, err |-> keyCanonical.err]
     ELSE [key |-> hashed, err |-> validateKey(hashed)]

\* (k *Key) SetKeyComponents
SetKeyComponents(k, pubKeyBytes, privateKeyBytes, keyType, scheme, keyIdHashAlgorithms) ==
  LET keyVal ==
        IF keyType \in {rsaKeyType, ecdsaKeyType}
        THEN IF Len(privateKeyBytes) > 0
             THEN [Private |-> TrimSpace(privateKeyBytes),
                   Public |-> TrimSpace(GeneratePublicPemBlock(pubKeyBytes))]
             ELSE [Private |-> <<>>, Public |-> TrimSpace(pubKeyBytes)]
        ELSE IF Len(privateKeyBytes) > 0
             THEN [Private |-> TrimSpace(EncodeToString(privateKeyBytes)),
                   Public |-> TrimSpace(EncodeToString(pubKeyBytes))]
             ELSE [Private |-> <<>>, Public |-> TrimSpace(EncodeToString(pubKeyBytes))]
  IN IF keyType \notin {rsaKeyType, ecdsaKeyType, ed25519KeyType}
     THEN [key |-> k, err |-> "ErrUnsupportedKeyType"]
     ELSE GenerateKeyId([k EXCEPT !.KeyVal = keyVal, !.KeyType = keyType, !.Scheme = scheme,
                                  !.KeyIdHashAlgorithms = keyIdHashAlgorithms])

\* the bytes of a parsed ed25519 key
EdKeyBytes(parsed) == IF parsed.role = "private" THEN EdPrivate(parsed.id) ELSE EdPublic(parsed.id)

\* (k *Key) LoadKey, given whether the file opens and reads, and its bytes
LoadKey(k, readable, pemBytes, scheme, keyIdHashAlgorithms) ==
  LET data == PemDecode(pemBytes)
      parsed == ParseKey(data.Bytes)
      pk == parsed.key
  IN IF ~readable THEN [key |-> k, err |-> "os error"]
     ELSE IF ~data.ok THEN [key |-> k, err |-> "ErrNoPEMBlock"]
     ELSE IF parsed.err # "nil" THEN [key |-> k, err |-> parsed.err]
     ELSE CASE pk.fam = "rsa" /\ pk.role = "public" ->
                 SetKeyComponents(k, pemBytes, <<>>, rsaKeyType, scheme, keyIdHashAlgorithms)
            [] pk.fam = "rsa" /\ pk.role = "private" ->
                 SetKeyComponents(k, MarshalPKIXPublicKey(PublicKey("rsa", pk.id)), pemBytes,
                                  rsaKeyType, scheme, keyIdHashAlgorithms)
            [] pk.fam = "ed25519" /\ pk.role = "public" ->
                 SetKeyComponents(k, EdPublic(pk.id), <<>>, ed25519KeyType, scheme,
                                  keyIdHashAlgorithms)
            [] pk.fam = "ed25519" /\ pk.role = "private" ->
                 SetKeyComponents(k, EdPublic(pk.id), EdPrivate(pk.id), ed25519KeyType, scheme,
                                  keyIdHashAlgorithms)
            [] pk.fam = "ecdsa" /\ pk.role = "private" ->
                 SetKeyComponents(k, MarshalPKIXPublicKey(PublicKey("ecdsa", pk.id)), pemBytes,
                                  ecdsaKeyType, scheme, keyIdHashAlgorithms)
            [] pk.fam = "ecdsa" /\ pk.role = "public" ->
                 SetKeyComponents(k, pemBytes, <<>>, ecdsaKeyType, scheme, keyIdHashAlgorithms)
            [] OTHER -> [key |-> k, err |-> "ErrUnsupportedKeyType"]

(***************************************************************************)
(* The key store as a state machine: a Key value as a caller or the JSON   *)
(* decoder may have filled it, then LoadKey, SetKeyComponents and          *)
(* GenerateKeyId on it.                                                    *)
(***************************************************************************)
NumKeyPairs == 2

\* a scheme and a list of hash algorithms as callers pass them
SgScheme == <<115>>
SgAlgos == <<<<115, 104, 97, 50, 53, 54>>>>

KeyPairIds == 1..NumKeyPairs

\* key files: a private or public key of each family, PKCS1 for rsa too
KeyFiles ==
  {PemEncode(DerPKCS8(PrivateKey(fam, id))) : fam \in {"rsa", "ecdsa", "ed25519"}, id \in KeyPairIds}
  \cup {PemEncode(MarshalPKIXPublicKey(PublicKey(fam, id))) : fam \in Families, id \in KeyPairIds}
  \cup {PemEncode(DerPKCS1(PrivateKey("rsa", id))) : id \in KeyPairIds}
  \cup {<<>>, <<45, 48, 9, 9, 9, 45, 10>>, <<104, 105>>}

Schemes == {<<114, 115, 97, 115, 115, 97, 45, 112, 115, 115, 45, 115, 104, 97, 50, 53, 54>>,
            <<101, 100, 50, 53, 53, 49, 57>>}
HashAlgorithms == {<<<<115, 104, 97, 50, 53, 54>>, <<115, 104, 97, 53, 49, 50>>>>, <<>>}
KeyTypes == {rsaKeyType, ecdsaKeyType, ed25519KeyType, <<100, 115, 97>>}

\* Key values as a caller hands them over: any key id, with or without private part
KeyInputs ==
  {MakeKey(kid, algos, kt, priv, pub, scheme) :
     kid \in {<<>>, <<53, 53, 54, 99>>},
     algos \in HashAlgorithms,
     kt \in KeyTypes,
     priv \in {<<>>, <<45, 48, 1, 1, 1, 45>>},
     pub \in {<<>>, <<45, 48, 3, 1, 1, 45>>, <<97, 34, 98>>},
     scheme \in Schemes}

KeyInit ==
  /\ key \in KeyInputs
  /\ keyPrev = key
  /\ keyOp = [op |-> "input", err |-> "nil"]

KeyGenerateKeyId ==
  /\ key' = GenerateKeyId(key).key
  /\ keyPrev' = key
  /\ keyOp' = [op |-> "GenerateKeyId", err |-> GenerateKeyId(key).err]

\* LoadKey fills a Key that holds no key yet
KeyLoadKey ==
  /\ keyOp.op = "input"
  /\ key.KeyId = <<>> /\ key.KeyVal.Public = <<>>
  /\ \E readable \in BOOLEAN, file \in KeyFiles, scheme \in Schemes, algos \in HashAlgorithms :
       LET r == LoadKey(key, readable, file, scheme, algos)
       IN /\ key' = r.key
          /\ keyPrev' = key
          /\ keyOp' = [op |-> "LoadKey", err |-> r.err]

\* the key bytes a caller hands to SetKeyComponents: the DER of a public
\* key or other bytes, and no private key or the PEM text of one
SetPublicBytes == {MarshalPKIXPublicKey(PublicKey("rsa", 1)), <<97, 34, 98>>}
SetPrivateBytes == {<<>>, <<45, 48, 1, 1, 2, 45>>}

\* k.SetKeyComponents(...) on a Key that is already filled
KeySetKeyComponents ==
  /\ keyOp.op = "GenerateKeyId"
  /\ \E pub \in SetPublicBytes, priv \in SetPrivateBytes,
        keyType \in {rsaKeyType, ed25519KeyType, <<100, 115, 97>>} :
       LET r == SetKeyComponents(key, pub, priv, keyType, SgScheme, SgAlgos)
       IN /\ key' = r.key
          /\ keyPrev' = key
          /\ keyOp' = [op |-> "SetKeyComponents", err |-> r.err]

KeyNext == KeyGenerateKeyId \/ KeyLoadKey \/ KeySetKeyComponents

InitKey == KeyInit /\ EncIdle /\ SgIdle /\ MbIdle
NextKey == KeyNext /\ UNCHANGED <<encVars, sgVars, mbVars>>
SpecKey == InitKey /\ [][NextKey]_vars

IsLowerHex(s) == \A i \in 1..Len(s) : (s[i] >= 48 /\ s[i] <= 57) \/ (s[i] >= 97 /\ s[i] <= 102)

RECURSIVE QuotedList(_)
QuotedList(l) ==
  IF l = <<>> THEN <<>>
  ELSE <<34>> \o EscapeQuotes(Head(l)) \o <<34>>
       \o (IF Tail(l) = <<>> THEN <<>> ELSE <<44>> \o QuotedList(Tail(l)))

\* the canonical encoding of {keytype, scheme, keyid_hash_algorithms,
\* keyval: {public}} written out:
\* {"keyid_hash_algorithms":[...],"keytype":"...","keyval":{"public":"..."},"scheme":"..."}
CanonicalPublicKey(k) ==
  <<123, 34, 107, 101, 121, 105, 100, 95, 104, 97, 115, 104, 95, 97, 108, 103, 111, 114, 105,
    116, 104, 109, 115, 34, 58, 91>>
  \o QuotedList(k.KeyIdHashAlgorithms)
  \o <<93, 44, 34, 107, 101, 121, 116, 121, 112, 101, 34, 58, 34>>
  \o EscapeQuotes(k.KeyType)
  \o <<34, 44, 34, 107, 101, 121, 118, 97, 108, 34, 58, 123, 34, 112, 117, 98, 108, 105, 99, 34,
       58, 34>>
  \o EscapeQuotes(k.KeyVal.Public)
  \o <<34, 125, 44, 34, 115, 99, 104, 101, 109, 101, 34, 58, 34>>
  \o EscapeQuotes(k.Scheme)
  \o <<34, 125>>

ExpectedKeyId(k) == EncodeToString(Sum256(CanonicalPublicKey(k)))

\* C9: GenerateKeyId sets KeyId to the 64 lowercase hex characters of the
\* SHA-256 of the canonical encoding of {keytype, scheme,
\* keyid_hash_algorithms, keyval: {public}} and changes nothing else; the id
\* depends neither on Private nor on the KeyId before, and on a Key whose id
\* was already derived the call leaves the Key as it was.
C9_KeyIdFromPublicAttributes ==
  /\ keyOp.op = "GenerateKeyId" =>
       /\ key = [keyPrev EXCEPT !.KeyId = ExpectedKeyId(keyPrev)]
       /\ Len(key.KeyId) = 64
       /\ IsLowerHex(key.KeyId)
       /\ (keyPrev.KeyId = ExpectedKeyId(keyPrev) => key = keyPrev)
  /\ (keyOp.op = "LoadKey" /\ keyOp.err = "nil") => key.KeyId = ExpectedKeyId(key)
  /\ (keyOp.op = "SetKeyComponents" /\ keyOp.err = "nil") =>
       /\ key.KeyId = ExpectedKeyId(key)
       /\ (/\ keyPrev.KeyId = ExpectedKeyId(keyPrev)
           /\ key.KeyType = keyPrev.KeyType
           /\ key.Scheme = keyPrev.Scheme
           /\ key.KeyIdHashAlgorithms = keyPrev.KeyIdHashAlgorithms
           /\ key.KeyVal.Public = keyPrev.KeyVal.Public) => key.KeyId = keyPrev.KeyId

\* GenerateKeyId called again on a Key that holds a private part and whose
\* id was already derived: the id stays
C9_Witness ==
  /\ keyOp.op = "GenerateKeyId"
  /\ keyPrev.KeyId = ExpectedKeyId(keyPrev)
  /\ key.KeyVal.Private # <<>>
  /\ key.KeyIdHashAlgorithms # <<>>
  /\ key.KeyId = keyPrev.KeyId

(***************************************************************************)
(* Signature engine                                                        *)
(***************************************************************************)
\* what the random source and the primitives deliver to one call: the salt
\* or nonce drawn, and the step that fails, if any
Faults == {"none", "sign", "marshal"}

Returned(sig, err) == [sig |-> sig, err |-> err]

\* GenerateSignature(signable, key): the Signature and the error returned
GenerateSignature(signable, k, rnd) ==
  LET data == PemDecode(k.KeyVal.Private)
      parsed == ParseKey(data.Bytes)
      hashed == Sum256(signable)
      privateHex == DecodeString(k.KeyVal.Private)
      edSig == EdSign(privateHex.bytes, signable)
      done(signatureBuffer) == Returned(MakeSignature(k.KeyId, EncodeToString(signatureBuffer)), "nil")
  IN IF k.KeyType \in {rsaKeyType, ecdsaKeyType}
     THEN IF ~data.ok THEN Returned(ZeroSignature, "ErrNoPEMBlock")
          ELSE IF parsed.err # "nil" THEN Returned(ZeroSignature, parsed.err)
          ELSE IF parsed.key.fam = "rsa" /\ parsed.key.role = "private"
            THEN IF k.KeyType # rsaKeyType THEN Returned(ZeroSignature, "ErrInvalidKeyType")
                 ELSE IF rnd.fault = "sign" THEN Returned(ZeroSignature, "rsa error")
                 ELSE done(SignPSS(parsed.key.id, hashed, rnd.salt))
          ELSE IF parsed.key.fam = "ecdsa" /\ parsed.key.role = "private"
            THEN IF k.KeyType # ecdsaKeyType THEN Returned(ZeroSignature, "ErrInvalidKeyType")
                 ELSE IF rnd.fault = "sign" THEN Returned(ZeroSignature, "nil")
                 ELSE IF rnd.fault = "marshal" THEN done(<<>>)
                 ELSE done(MarshalEcdsaSignature(EcdsaSign(parsed.key.id, hashed, rnd.salt)))
          ELSE Returned(ZeroSignature, "ErrUnsupportedKeyType")
     ELSE IF k.KeyType = ed25519KeyType
     THEN IF privateHex.err # "nil" THEN Returned(ZeroSignature, privateHex.err)
          ELSE IF edSig.panic THEN Returned(ZeroSignature, "panic: ed25519: bad private key length")
          ELSE done(edSig.sig)
     ELSE Returned(ZeroSignature, "ErrUnsupportedKeyType")

\* VerifySignature(key, sig, unverified): the error returned, "nil" on success
VerifySignature(k, sig, unverified) ==
  LET data == PemDecode(k.KeyVal.Public)
      parsed == ParseKey(data.Bytes)
      hashed == Sum256(unverified)
      sigBytes == DecodeString(sig.Sig).bytes
      ecdsaSignature == UnmarshalEcdsaSignature(sigBytes)
      pubHex == DecodeString(k.KeyVal.Public)
      sigHex == DecodeString(sig.Sig)
      edOk == EdVerify(pubHex.bytes, unverified, sigHex.bytes)
  IN IF k.KeyType \in {rsaKeyType, ecdsaKeyType}
     THEN IF ~data.ok THEN "ErrNoPEMBlock"
          ELSE IF parsed.err # "nil" THEN parsed.err
          ELSE IF parsed.key.fam = "rsa" /\ parsed.key.role = "public"
            THEN IF VerifyPSS(parsed.key.id, hashed, sigBytes) THEN "nil" ELSE "ErrInvalidSignature"
          ELSE IF parsed.key.fam = "ecdsa" /\ parsed.key.role = "public"
            THEN IF ~ecdsaSignature.ok THEN "asn1 error"
                 ELSE IF EcdsaVerify(parsed.key.id, hashed, ecdsaSignature.R, ecdsaSignature.S)
                   THEN "nil"
                 ELSE "ErrInvalidSignature"
          ELSE "ErrInvalidSignature"
     ELSE IF k.KeyType = ed25519KeyType
     THEN IF pubHex.err # "nil" THEN pubHex.err
          ELSE IF sigHex.err # "nil" THEN sigHex.err
          ELSE IF edOk.panic THEN "panic: ed25519: bad public key length"
          ELSE IF edOk.ok THEN "nil"
          ELSE "ErrInvalidSignature"
     ELSE "ErrInvalidSignature"

(***************************************************************************)
(* The signature engine as a state machine: a Key and a payload, then      *)
(* GenerateSignature, then VerifySignature of the result with a key, then  *)
(* VerifySignature of the result with one position of its hex string       *)
(* changed.                                                                *)
(***************************************************************************)
Payloads == {<<>>, <<104, 105>>, <<123, 34, 97, 34, 58, 49, 125>>}
Salts == {5, 200}
Randomness == [salt : Salts, fault : Faults]

\* Keys as LoadKey delivers them from private and from public key files
LoadedPrivateKey(fam, id) ==
  LoadKey(ZeroKey, TRUE, PemEncode(DerPKCS8(PrivateKey(fam, id))), SgScheme, SgAlgos).key
LoadedPublicKey(fam, id) ==
  LoadKey(ZeroKey, TRUE, PemEncode(MarshalPKIXPublicKey(PublicKey(fam, id))), SgScheme, SgAlgos).key

LoadedPrivateKeys ==
  {LoadedPrivateKey(fam, id) : fam \in {"rsa", "ecdsa", "ed25519"}, id \in KeyPairIds}
  \cup {LoadKey(ZeroKey, TRUE, PemEncode(DerPKCS1(PrivateKey("rsa", 1))), SgScheme, SgAlgos).key}
LoadedPublicKeys ==
  {LoadedPublicKey(fam, id) : fam \in {"rsa", "ecdsa", "ed25519"}, id \in KeyPairIds}

\* the Key without its private part
PublicForm(k) == [k EXCEPT !.KeyVal.Private = <<>>]

\* Keys a caller can hand over besides: a loaded Key under another declared
\* type, PEM material of a family the declared type does not take, a private
\* part that is no key
OddKeys ==
  {[k EXCEPT !.KeyType = kt] :
     k \in {LoadedPrivateKey(fam, 1) : fam \in {"rsa", "ecdsa", "ed25519"}}
           \cup {LoadedPublicKey(fam, 1) : fam \in {"rsa", "ecdsa", "ed25519"}},
     kt \in KeyTypes}
  \cup {MakeKey(<<49>>, SgAlgos, kt, PemEncode(DerPKCS8(PrivateKey("ed25519", 1))),
                PemEncode(MarshalPKIXPublicKey(PublicKey(fam, 1))), SgScheme) :
          kt \in {rsaKeyType, ecdsaKeyType}, fam \in {"ed25519", "dsa"}}
  \cup {MakeKey(<<49>>, SgAlgos, kt, <<45, 48, 9, 9, 9, 45>>, <<45, 48, 9, 9, 9, 45>>, SgScheme) :
          kt \in {rsaKeyType, ed25519KeyType}}
  \cup {MakeKey(<<49>>, SgAlgos, ed25519KeyType, <<97, 98>>, <<97, 98>>, SgScheme)}

SgKeys == LoadedPrivateKeys \cup LoadedPublicKeys \cup OddKeys

\* sig with position i of its hex string replaced by the byte c
ChangedAt(sig, i, c) == [sig EXCEPT !.Sig[i] = c]
ReplacementBytes == {48, 49, 55, 65, 70, 99, 103}

SgInit ==
  /\ sgKey \in SgKeys
  /\ sgData \in Payloads
  /\ sgSig = ZeroSignature
  /\ sgErr = "nil"
  /\ sgRnd = [salt |-> 0, fault |-> "none"]
  /\ sgVerify = [key |-> ZeroKey, err |-> "none"]
  /\ sgOp = "input"

\* s, err := GenerateSignature(data, key)
SgGenerateSignature ==
  /\ sgOp = "input"
  /\ \E rnd \in Randomness :
       /\ sgSig' = GenerateSignature(sgData, sgKey, rnd).sig
       /\ sgErr' = GenerateSignature(sgData, sgKey, rnd).err
       /\ sgRnd' = rnd
  /\ sgOp' = "signed"
  /\ UNCHANGED <<sgKey, sgData, sgVerify>>

\* VerifySignature(public form of key, s, data) of a signature returned without error
SgVerifySignature ==
  /\ sgOp = "signed"
  /\ sgErr = "nil"
  /\ sgVerify' = [key |-> PublicForm(sgKey), err |-> VerifySignature(PublicForm(sgKey), sgSig, sgData)]
  /\ sgOp' = "verified"
  /\ UNCHANGED <<sgKey, sgData, sgSig, sgErr, sgRnd>>

\* VerifySignature(k, s, data) with any key
SgVerifyWithKey ==
  /\ sgOp = "signed"
  /\ sgErr = "nil"
  /\ sgSig # ZeroSignature
  /\ \E k \in SgKeys :
       sgVerify' = [key |-> k, err |-> VerifySignature(k, sgSig, sgData)]
  /\ sgOp' = "verified with key"
  /\ UNCHANGED <<sgKey, sgData, sgSig, sgErr, sgRnd>>

\* VerifySignature of a signature that verified, one position of its hex
\* string changed
SgVerifyChanged ==
  /\ sgOp = "verified"
  /\ sgVerify.err = "nil"
  /\ \E i \in 1..Len(sgSig.Sig), c \in ReplacementBytes :
       /\ sgSig.Sig[i] # c
       /\ sgSig' = ChangedAt(sgSig, i, c)
       /\ sgVerify' = [sgVerify EXCEPT !.err = VerifySignature(sgVerify.key, ChangedAt(sgSig, i, c), sgData)]
  /\ sgOp' = "verified changed"
  /\ UNCHANGED <<sgKey, sgData, sgErr, sgRnd>>

SgNext == SgGenerateSignature \/ SgVerifySignature \/ SgVerifyWithKey \/ SgVerifyChanged

InitSg == SgInit /\ EncIdle /\ KeyIdle /\ MbIdle
NextSg == SgNext /\ UNCHANGED <<encVars, keyVars, mbVars>>
SpecSg == InitSg /\ [][NextSg]_vars

SupportedKeyTypes == {rsaKeyType, ecdsaKeyType, ed25519KeyType}

\* the family of the key a Key's private part holds: the parsed PEM key, or
\* ed25519 for the hex of a private key of that size; "none" if it holds no key
PrivateFamily(k) ==
  LET data == PemDecode(k.KeyVal.Private)
      parsed == ParseKey(data.Bytes)
      privateHex == DecodeString(k.KeyVal.Private)
  IN IF data.ok /\ parsed.err = "nil" /\ parsed.key.role = "private" THEN parsed.key.fam
     ELSE IF k.KeyVal.Private # <<>> /\ privateHex.err = "nil" /\ Len(privateHex.bytes) = PrivateKeySize
       THEN "ed25519"
     ELSE "none"

\* the family of the key a Key's public part holds
PublicFamily(k) ==
  LET data == PemDecode(k.KeyVal.Public)
      parsed == ParseKey(data.Bytes)
      pubHex == DecodeString(k.KeyVal.Public)
  IN IF data.ok /\ parsed.err = "nil" /\ parsed.key.role = "public" THEN parsed.key.fam
     ELSE IF k.KeyVal.Public # <<>> /\ pubHex.err = "nil" /\ Len(pubHex.bytes) = PublicKeySize
       THEN "ed25519"
     ELSE "none"

DeclaredFamily(k) ==
  CASE k.KeyType = rsaKeyType -> "rsa"
    [] k.KeyType = ecdsaKeyType -> "ecdsa"
    [] k.KeyType = ed25519KeyType -> "ed25519"
    [] OTHER -> "unsupported"

\* C1: a Key of a supported family carrying its private part, a non-empty
\* payload: when GenerateSignature returns without error, VerifySignature
\* with the Key's public form accepts the signature, and the signature names
\* the Key's id.
C1_SignThenVerify ==
  (/\ sgOp = "verified"
   /\ sgKey \in LoadedPrivateKeys
   /\ sgData # <<>>)
  => (sgVerify.err = "nil" /\ sgSig.KeyId = sgKey.KeyId)

\* what ParseKey makes of the PEM block in a Key's public part
ParsedPublic(k) ==
  IF PemDecode(k.KeyVal.Public).ok THEN ParseKey(PemDecode(k.KeyVal.Public).Bytes)
  ELSE [key |-> NoKey, err |-> "ErrNoPEMBlock"]

\* C6: VerifySignature with a Key of an unsupported type, or whose public
\* part parses to a key that is no rsa or ecdsa public key, returns
\* ErrUnsupportedKeyType, never ErrInvalidSignature.
C6_UnsupportedKeyTypeOnVerify ==
  (/\ sgOp = "verified with key"
   /\ \/ DeclaredFamily(sgVerify.key) = "unsupported"
      \/ /\ DeclaredFamily(sgVerify.key) \in {"rsa", "ecdsa"}
         /\ ParsedPublic(sgVerify.key).err = "nil"
         /\ ~(/\ ParsedPublic(sgVerify.key).key.role = "public"
              /\ ParsedPublic(sgVerify.key).key.fam \in {"rsa", "ecdsa"}))
  => sgVerify.err = "ErrUnsupportedKeyType"

\* C7: a signature that verifies, one position of its hex string changed,
\* makes VerifySignature return ErrInvalidSignature: neither success nor an
\* error of decoding.
C7_ChangedSignatureIsInvalid ==
  sgOp = "verified changed" => sgVerify.err = "ErrInvalidSignature"

\* C8: GenerateSignature returns ErrUnsupportedKeyType for a key type
\* outside the three families, ErrInvalidKeyType when the declared type is
\* not the family of the private key held, and an error (no panic, no
\* signature) when the private part is empty.
C8_GenerateSignatureErrors ==
  sgOp = "signed" =>
    /\ DeclaredFamily(sgKey) = "unsupported" => sgErr = "ErrUnsupportedKeyType"
    /\ (/\ DeclaredFamily(sgKey) # "unsupported"
        /\ PrivateFamily(sgKey) \in {"rsa", "ecdsa", "ed25519"}
        /\ PrivateFamily(sgKey) # DeclaredFamily(sgKey)) => sgErr = "ErrInvalidKeyType"
    /\ (DeclaredFamily(sgKey) # "unsupported" /\ sgKey.KeyVal.Private = <<>>) =>
         /\ sgErr \notin {"nil", "panic: ed25519: bad private key length"}
         /\ sgSig = ZeroSignature

(***************************************************************************)
(* Metablock                                                               *)
(***************************************************************************)
Absent == [t |-> "absent", v |-> 0]

NilSigned == [variant |-> "nil"]

MakeLink(type, name, materials, command) ==
  [variant |-> "Link", Type |-> type, Name |-> name, Materials |-> materials,
   Products |-> NilVal, ByProducts |-> NilVal, Command |-> command, Environment |-> NilVal]

MakeLayout(type, keys) ==
  [variant |-> "Layout", Type |-> type, Steps |-> NilVal, Inspect |-> NilVal, Keys |-> keys,
   expires |-> <<>>, readme |-> <<>>]

ZeroMetablock == [Signed |-> NilSigned, Signatures |-> <<>>]

\* a field of a struct after json.Unmarshal: the JSON value if it is there
\* and of the field's type, the zero value otherwise
StringField(f) == IF f.t = "string" THEN f.v ELSE <<>>

\* the entries of a JSON object as a Go map holds them: of the entries with
\* one key the last
LastEntries(m) ==
  LET last == {i \in 1..Len(m) : \A j \in (i + 1)..Len(m) : m[j].k # m[i].k}
  IN [n \in 1..Cardinality(last) |->
        m[CHOOSE i \in last : Cardinality({j \in last : j <= i}) = n]]

\* a JSON value decoded into an interface{}: objects become maps, every
\* number a float64
RECURSIVE Interface(_)
Interface(f) ==
  CASE f.t = "map" ->
         MapVal([n \in 1..Len(LastEntries(f.v)) |->
                   Entry(LastEntries(f.v)[n].k, Interface(LastEntries(f.v)[n].v))])
    [] f.t = "list" -> ListVal([i \in 1..Len(f.v) |-> Interface(f.v[i])])
    [] f.t \in {"int", "float64"} -> FloatVal(f.v)
    [] OTHER -> f

\* a map[string]interface{} field
MapField(f) == IF f.t = "map" THEN Interface(f) ELSE NilVal

\* a []string: nil or not, its length, and the strings of the array behind
\* it, which may be more than its length
NilSlice == [nil |-> TRUE, len |-> 0, array |-> <<>>]

\* the []string as a value: the first len strings of the array
SliceValue(s) == IF s.nil THEN NilVal ELSE ListVal(SubSeq(s.array, 1, s.len))

\* one JSON value decoded into the []string prev: null makes it nil, an
\* empty array a new empty slice; an array sets the length and the elements
\* in the array behind the slice, where an element that is no JSON string
\* leaves what the array held at that place, also past the length of prev,
\* the empty string if nothing; any other value leaves the slice alone
StringsInto(prev, f) ==
  CASE f.t = "nil" -> NilSlice
    [] f.t = "list" /\ Len(f.v) = 0 -> [nil |-> FALSE, len |-> 0, array |-> <<>>]
    [] f.t = "list" /\ Len(f.v) > 0 ->
         [nil |-> FALSE, len |-> Len(f.v),
          array |-> [i \in 1..(IF Len(prev.array) > Len(f.v) THEN Len(prev.array) ELSE Len(f.v)) |->
                       IF i <= Len(f.v) /\ f.v[i].t = "string" THEN f.v[i]
                       ELSE IF i <= Len(prev.array) THEN prev.array[i]
                       ELSE StringVal(<<>>)]]
    [] OTHER -> prev

\* a []string field of a new struct
ListField(f) == SliceValue(StringsInto(NilSlice, f))

\* the name of a member as the decoder compares it with the tag of a struct
\* field: letters in upper case, the Kelvin sign as K, the long s as S
RECURSIVE FoldName(_)
FoldName(s) ==
  IF s = <<>> THEN <<>>
  ELSE IF Len(s) >= 3 /\ SubSeq(s, 1, 3) = <<226, 132, 170>>
    THEN <<75>> \o FoldName(SubSeq(s, 4, Len(s)))
  ELSE IF Len(s) >= 2 /\ SubSeq(s, 1, 2) = <<197, 191>>
    THEN <<83>> \o FoldName(SubSeq(s, 3, Len(s)))
  ELSE <<IF s[1] >= 97 /\ s[1] <= 122 THEN s[1] - 32 ELSE s[1]>> \o FoldName(Tail(s))

\* the values, in the order of the document, of the members of a JSON object
\* that the decoder stores in the struct field tagged tag; none when the
\* value is no object
MembersOf(f, tag) ==
  LET hits == IF f.t = "map"
              THEN {i \in 1..Len(f.v) : FoldName(f.v[i].k) = FoldName(tag)}
              ELSE {}
  IN [n \in 1..Cardinality(hits) |->
        f.v[CHOOSE i \in hits : Cardinality({j \in hits : j <= i}) = n].v]

\* the same over a sequence of JSON values decoded one after the other into
\* one struct
RECURSIVE MembersIn(_, _)
MembersIn(fs, tag) ==
  IF fs = <<>> THEN <<>> ELSE MembersOf(Head(fs), tag) \o MembersIn(Tail(fs), tag)

\* a string field after these values were decoded into it one after the
\* other: the last JSON string, a value that is none leaves the field alone
StringMember(fs) ==
  LET strings == {i \in 1..Len(fs) : fs[i].t = "string"}
  IN IF strings = {} THEN <<>>
     ELSE fs[CHOOSE i \in strings : \A j \in strings : j <= i].v

\* a []string field after these values were decoded into it one after the other
RECURSIVE StringsMember(_)
StringsMember(fs) ==
  IF fs = <<>> THEN NilSlice
  ELSE StringsInto(StringsMember(SubSeq(fs, 1, Len(fs) - 1)), fs[Len(fs)])

\* json.Unmarshal of a JSON value into a new Key, as the JSON value of that
\* Key: the five fields under their tags
UnmarshalKey(f) ==
  LET keyval == MembersOf(f, <<107, 101, 121, 118, 97, 108>>)
  IN MapVal(<<Entry(<<107, 101, 121, 105, 100>>,
                    StringVal(StringMember(MembersOf(f, <<107, 101, 121, 105, 100>>)))),
              Entry(<<107, 101, 121, 105, 100, 95, 104, 97, 115, 104, 95, 97, 108, 103, 111, 114,
                      105, 116, 104, 109, 115>>,
                    SliceValue(StringsMember(
                      MembersOf(f, <<107, 101, 121, 105, 100, 95, 104, 97, 115, 104, 95,
                                     97, 108, 103, 111, 114, 105, 116, 104, 109, 115>>)))),
              Entry(<<107, 101, 121, 116, 121, 112, 101>>,
                    StringVal(StringMember(MembersOf(f, <<107, 101, 121, 116, 121, 112, 101>>)))),
              Entry(<<107, 101, 121, 118, 97, 108>>,
                    MapVal(<<Entry(<<112, 114, 105, 118, 97, 116, 101>>,
                                   StringVal(StringMember(
                                     MembersIn(keyval, <<112, 114, 105, 118, 97, 116, 101>>)))),
                             Entry(<<112, 117, 98, 108, 105, 99>>,
                                   StringVal(StringMember(
                                     MembersIn(keyval, <<112, 117, 98, 108, 105, 99>>))))>>)),
              Entry(<<115, 99, 104, 101, 109, 101>>,
                    StringVal(StringMember(MembersOf(f, <<115, 99, 104, 101, 109, 101>>))))>>)

\* a map[string]Key field: the value of every key of the object, the last
\* one of a key that comes more than once, is decoded into a new Key
KeysField(f) ==
  IF f.t = "map"
  THEN MapVal([n \in 1..Len(LastEntries(f.v)) |->
                 Entry(LastEntries(f.v)[n].k, UnmarshalKey(LastEntries(f.v)[n].v))])
  ELSE NilVal

\* json.Unmarshal of the "signed" object into a Link
UnmarshalLink(o) ==
  MakeLink(StringField(o.type), StringField(o.name), MapField(o.materials), ListField(o.command))

\* json.Unmarshal of the "signed" object into a Layout: expires and readme
\* are not exported, the decoder leaves them alone
UnmarshalLayout(o) == MakeLayout(StringField(o.type), KeysField(o.keys))

LinkType == <<108, 105, 110, 107>>
LayoutType == <<108, 97, 121, 111, 117, 116>>

\* (mb *Metablock) Load: the Metablock afterwards and how the call ended
MetablockLoad(m, doc) ==
  LET \* rawMb holds the top-level fields when the file was read and is a JSON object
      parsed == doc.readable /\ doc.json = "object"
      signaturesNil == ~parsed \/ doc.signaturesForm \in {"absent", "null"}
      signedNil == ~parsed \/ doc.signedForm \in {"absent", "null"}
      \* "signatures" that is no array leaves mb.Signatures as it was
      withSignatures ==
        IF doc.signaturesForm = "array" THEN [m EXCEPT !.Signatures = doc.signatures] ELSE m
      \* signed["_type"] of the opaque map, nil when signed is no object
      type == IF doc.signedForm = "object" THEN doc.signed.type ELSE Absent
  IN IF signaturesNil THEN [mb |-> m, outcome |-> "panic: nil pointer dereference"]
     ELSE IF signedNil THEN [mb |-> withSignatures, outcome |-> "panic: nil pointer dereference"]
     ELSE IF type = StringVal(LinkType)
       THEN [mb |-> [withSignatures EXCEPT !.Signed = UnmarshalLink(doc.signed)], outcome |-> "ok"]
     ELSE IF type = StringVal(LayoutType)
       THEN [mb |-> [withSignatures EXCEPT !.Signed = UnmarshalLayout(doc.signed)], outcome |-> "ok"]
     ELSE [mb |-> withSignatures,
           outcome |-> "panic: The '_type' of the 'signed' part must be one of 'link' or 'layout'"]

\* the JSON value a marshaller makes of Signed: the exported fields under
\* their tags, in the order the struct declares them
SignedValue(signed) ==
  CASE signed.variant = "Link" ->
         MapVal(<<Entry(<<95, 116, 121, 112, 101>>, StringVal(signed.Type)),
                  Entry(<<110, 97, 109, 101>>, StringVal(signed.Name)),
                  Entry(<<109, 97, 116, 101, 114, 105, 97, 108, 115>>, signed.Materials),
                  Entry(<<112, 114, 111, 100, 117, 99, 116, 115>>, signed.Products),
                  Entry(<<98, 121, 112, 114, 111, 100, 117, 99, 116, 115>>, signed.ByProducts),
                  Entry(<<99, 111, 109, 109, 97, 110, 100>>, signed.Command),
                  Entry(<<101, 110, 118, 105, 114, 111, 110, 109, 101, 110, 116>>, signed.Environment)>>)
    [] signed.variant = "Layout" ->
         MapVal(<<Entry(<<95, 116, 121, 112, 101>>, StringVal(signed.Type)),
                  Entry(<<115, 116, 101, 112, 115>>, signed.Steps),
                  Entry(<<105, 110, 115, 112, 101, 99, 116>>, signed.Inspect),
                  Entry(<<107, 101, 121, 115>>, signed.Keys)>>)
    [] OTHER -> NilVal

\* canonicaljson.Marshal of a string: quote and backslash get a backslash,
\* the control characters their two-character escape where JSON has one and
\* \u00XX in uppercase hex otherwise, every other byte is written as it is
RECURSIVE MarshalString(_)
MarshalString(s) ==
  IF s = <<>> THEN <<>>
  ELSE IF Len(s) > 1
    THEN MarshalString(SubSeq(s, 1, Len(s) \div 2))
         \o MarshalString(SubSeq(s, Len(s) \div 2 + 1, Len(s)))
  ELSE CASE s[1] \in {34, 92} -> <<92, s[1]>>
         [] s[1] = 8 -> <<92, 98>>
         [] s[1] = 9 -> <<92, 116>>
         [] s[1] = 10 -> <<92, 110>>
         [] s[1] = 12 -> <<92, 102>>
         [] s[1] = 13 -> <<92, 114>>
         [] s[1] < 32 /\ s[1] \notin {8, 9, 10, 12, 13} ->
              <<92, 117, 48, 48, 48 + (s[1] \div 16),
                IF s[1] % 16 < 10 THEN 48 + (s[1] % 16) ELSE 55 + (s[1] % 16)>>
         [] OTHER -> s

RECURSIVE Marshal(_)
RECURSIVE MarshalList(_, _)
RECURSIVE MarshalMap(_, _, _)

\* the elements of an array, a comma between them
MarshalList(l, i) ==
  IF i > Len(l) THEN <<>>
  ELSE Marshal(l[i]) \o (IF i < Len(l) THEN <<44>> ELSE <<>>) \o MarshalList(l, i + 1)

\* the members of an object, the keys in increasing order
MarshalMap(m, mapKeys, i) ==
  IF i > Len(mapKeys) THEN <<>>
  ELSE <<34>> \o MarshalString(mapKeys[i]) \o <<34, 58>>
       \o Marshal(MapGet(m, mapKeys[i]))
       \o (IF i < Len(mapKeys) THEN <<44>> ELSE <<>>)
       \o MarshalMap(m, mapKeys, i + 1)

\* canonicaljson.Marshal: canonical JSON of a value; a number is an integer
\* here and is written in decimal digits
Marshal(obj) ==
  CASE obj.t = "string" -> <<34>> \o MarshalString(obj.v) \o <<34>>
    [] obj.t = "bool" -> IF obj.v THEN <<116, 114, 117, 101>> ELSE <<102, 97, 108, 115, 101>>
    [] obj.t \in {"int", "float64"} -> Decimal(obj.v)
    [] obj.t = "list" -> <<91>> \o MarshalList(obj.v, 1) \o <<93>>
    [] obj.t = "map" -> <<123>> \o MarshalMap(obj.v, SortStrings(MapKeysOf(obj.v)), 1) \o <<125>>
    [] OTHER -> <<110, 117, 108, 108>>

\* (mb *Metablock) GetSignableRepresentation: canonicaljson.Marshal(mb.Signed)
GetSignableRepresentation(m) == Marshal(SignedValue(m.Signed))

\* VerifySignature of package main: RSA-PSS only, every failure a panic
MainVerifySignature(k, sig, data) ==
  LET block == PemDecode(k.KeyVal.Public)
      pub == ParsePKIXPublicKey(block.Bytes)
      hashed == Sum256(data)
      sigHex == DecodeString(sig.Sig).bytes
  IN IF ~block.ok THEN "panic: Failed to parse PEM block containing the public key"
     ELSE IF pub.err # "nil" THEN "panic: Failed to parse DER encoded public key"
     ELSE IF pub.key.fam # "rsa" THEN "panic: interface conversion"
     ELSE IF ~VerifyPSS(pub.key.id, hashed, sigHex) THEN "panic: Signature verification failed"
     ELSE "Signature verification passed"

\* a slip: the loop does not break, the last matching signature wins
LastSignatureFor(signatures, keyId) ==
  LET matching == {i \in 1..Len(signatures) : signatures[i].KeyId = keyId}
  IN IF matching = {} THEN ZeroSignature
     ELSE signatures[CHOOSE i \in matching : \A j \in matching : i >= j]

\* the first signature of the list whose KeyId is keyId, the zero Signature if none
FirstSignatureFor(signatures, keyId) ==
  LET matching == {i \in 1..Len(signatures) : signatures[i].KeyId = keyId}
  IN IF matching = {} THEN ZeroSignature
     ELSE signatures[CHOOSE i \in matching : \A j \in matching : i <= j]

\* (mb *Metablock) VerifySignature: how the call ended
MetablockVerifySignature(m, k) ==
  LET sig == FirstSignatureFor(m.Signatures, k.KeyId)
  IN IF sig = ZeroSignature THEN "panic: No signature found for key"
     ELSE MainVerifySignature(k, sig, GetSignableRepresentation(m))

(***************************************************************************)
(* The Metablock as a state machine: Load of a document, a caller          *)
(* attaching the signature of a Key over the signable bytes or assigning   *)
(* to a field of Signed, Key.Load of a key file, and VerifySignature.      *)
(***************************************************************************)
MaxSignatures == 2

\* the key id Key.Load gives every Key
MainKeyId ==
  <<53, 53, 54, 99, 97, 101, 98, 100, 99, 48, 56, 55, 55, 101, 101, 100, 53, 51, 100, 52, 49, 57, 98, 54, 48, 101, 100, 100, 98, 49, 101, 53>>
  \o <<55, 102, 97, 55, 55, 51, 101, 52, 101, 51, 49, 100, 55, 48, 54, 57, 56, 98, 53, 56, 56, 102, 51, 101, 57, 99, 99, 52, 56, 98, 51, 53>>

\* (k *Key) Load: the Key afterwards. The errors of Open and ReadAll are
\* dropped, a file that cannot be read leaves Public empty; nothing of the
\* Key before the call is kept
KeyLoad(k, keyFile) ==
  MakeKey(MainKeyId,
          <<<<115, 104, 97, 50, 53, 54>>, <<115, 104, 97, 53, 49, 50>>>>,
          rsaKeyType,
          <<>>,
          IF keyFile.readable THEN keyFile.bytes ELSE <<>>,
          <<114, 115, 97, 115, 115, 97, 45, 112, 115, 115, 45, 115, 104, 97, 50, 53, 54>>)

\* the files Key.Load is given: PEM public keys, a file that is not there,
\* an empty file, a file without PEM block, a PEM block that is no key
MbKeyFiles ==
  {[readable |-> TRUE, bytes |-> PemEncode(MarshalPKIXPublicKey(PublicKey("rsa", id)))] :
     id \in KeyPairIds}
  \cup {[readable |-> TRUE, bytes |-> PemEncode(MarshalPKIXPublicKey(PublicKey("ecdsa", 1)))],
        [readable |-> FALSE, bytes |-> <<>>],
        [readable |-> TRUE, bytes |-> <<>>],
        [readable |-> TRUE, bytes |-> <<104, 105>>],
        [readable |-> TRUE, bytes |-> <<45, 48, 9, 9, 9, 45, 10>>]}

\* an RSA key pair filed under the key id Key.Load gives
MainSigner(id) == [LoadedPrivateKey("rsa", id) EXCEPT !.KeyId = MainKeyId]

\* signers: RSA keys under the key id of their own and under the one
\* Key.Load gives; an ecdsa key stands for the keys that are no RSA keys
MbSigners ==
  {LoadedPrivateKey("rsa", id) : id \in KeyPairIds}
  \cup {MainSigner(id) : id \in KeyPairIds}
  \cup {LoadedPrivateKey("ecdsa", 1)}

\* Keys a caller verifies with that Key.Load did not fill, such as the
\* entries of a Layout's Keys: the public forms of the signers, a public key
\* filed under the id of another key, a Key never loaded
MbVerifyKeys ==
  {PublicForm(k) : k \in MbSigners}
  \cup {[PublicForm(LoadedPrivateKey("rsa", 2)) EXCEPT !.KeyId = LoadedPrivateKey("rsa", 1).KeyId]}
  \cup {ZeroKey}

SignedObject(type, name, materials, command, keys) ==
  [type |-> type, name |-> name, materials |-> materials, command |-> command, keys |-> keys,
   expires |-> Absent, readme |-> Absent]

EchoHi == ListVal(<<StringVal(<<101, 99, 104, 111>>), StringVal(<<104, 105>>)>>)
Step1 == StringVal(<<115, 116, 101, 112, 49>>)

\* a link whose name holds a newline and a backslash
TwoLines ==
  SignedObject(StringVal(LinkType), StringVal(<<97, 10, 98, 92>>), MapVal(<<>>), EchoHi, Absent)

\* the "signed" objects of the documents
SignedObjects ==
  {TwoLines,
   \* an escape character in the name, a number in materials and among the
   \* strings of command
   SignedObject(StringVal(LinkType), StringVal(<<27>>), MapVal(<<Entry(<<102>>, IntVal(1))>>),
                ListVal(<<IntVal(1), StringVal(<<97>>)>>), Absent),
   \* keys whose values are an empty object, a number, an object with some
   \* members of a Key
   SignedObject(StringVal(LayoutType), Absent, Absent, Absent,
                MapVal(<<Entry(<<107>>, MapVal(<<>>))>>)),
   SignedObject(StringVal(LayoutType), Absent, Absent, Absent,
                MapVal(<<Entry(<<107>>, IntVal(1)),
                         Entry(<<106>>, MapVal(<<Entry(<<107, 101, 121, 105, 100>>, StringVal(<<97>>)),
                                                 Entry(<<107, 101, 121, 116, 121, 112, 101>>, IntVal(1)),
                                                 Entry(<<107, 101, 121, 118, 97, 108>>,
                                                       MapVal(<<Entry(<<112, 117, 98, 108, 105, 99>>,
                                                                      StringVal(<<112>>))>>))>>))>>)),
   \* members of a Key named in another case and with the Kelvin sign, some
   \* of them more than once, and one key of keys twice
   SignedObject(StringVal(LayoutType), Absent, Absent, Absent,
                MapVal(<<Entry(<<107>>, MapVal(<<Entry(<<115, 99, 104, 101, 109, 101>>, StringVal(<<120>>))>>)),
                         Entry(<<107>>, MapVal(<<Entry(<<107, 101, 121, 105, 100>>, StringVal(<<98>>)),
                                                 Entry(<<75, 69, 89, 73, 68>>, StringVal(<<97>>)),
                                                 Entry(<<226, 132, 170, 101, 121, 105, 100>>, IntVal(1)),
                                                 Entry(<<83, 67, 72, 69, 77, 69>>, StringVal(<<115>>)),
                                                 Entry(<<107, 101, 121, 105, 100, 95, 104, 97, 115, 104, 95, 97, 108, 103, 111, 114, 105, 116, 104, 109, 115>>,
                                                       ListVal(<<StringVal(<<97>>), StringVal(<<98>>)>>)),
                                                 Entry(<<75, 69, 89, 73, 68, 95, 72, 65, 83, 72, 95, 65, 76, 71, 79, 82, 73, 84, 72, 77, 83>>,
                                                       ListVal(<<StringVal(<<120>>)>>)),
                                                 Entry(<<107, 101, 121, 105, 100, 95, 104, 97, 115, 104, 95, 97, 108, 103, 111, 114, 105, 116, 104, 109, 115>>,
                                                       ListVal(<<IntVal(1), NilVal>>)),
                                                 Entry(<<75, 101, 121, 86, 97, 108>>,
                                                       MapVal(<<Entry(<<80, 117, 98, 108, 105, 99>>,
                                                                      StringVal(<<112>>))>>))>>))>>))} \cup
  {SignedObject(StringVal(LinkType), Step1, MapVal(<<>>), command, Absent) :
     command \in {EchoHi, Absent}}
  \cup {SignedObject(StringVal(LinkType), Absent, Absent, Absent, Absent)}
  \cup {SignedObject(StringVal(LayoutType), Absent, Absent, Absent, keys) :
          keys \in {Absent, MapVal(<<>>)}}
  \cup {SignedObject(type, Step1, MapVal(<<>>), EchoHi, Absent) :
          type \in {Absent, NilVal, IntVal(1), StringVal(<<119, 105, 100, 103, 101, 116>>),
                    StringVal(<<76, 105, 110, 107>>), StringVal(<<>>)}}

\* what Load makes of a "signed" object with a known _type
DecodedSigned(o) ==
  IF o.type = StringVal(LinkType) THEN UnmarshalLink(o)
  ELSE IF o.type = StringVal(LayoutType) THEN UnmarshalLayout(o)
  ELSE NilSigned

\* the signature of signer k over data, no step failing
SignatureOf(k, data) == GenerateSignature(data, k, [salt |-> 5, fault |-> "none"]).sig

\* signatures a document may list next to "signed": the zero signature, a
\* signature that is no signature, and that of an RSA key over the signable
\* bytes
SignaturePool(o) ==
  LET data == Marshal(SignedValue(DecodedSigned(o)))
  IN {ZeroSignature,
      MakeSignature(MainKeyId, <<48, 48>>),
      SignatureOf(MainSigner(1), data)}

\* lists of up to MaxSignatures different signatures of the pool
SignatureLists(o) ==
  UNION {{l \in [1..n -> SignaturePool(o)] : \A i, j \in 1..n : l[i] = l[j] => i = j} :
           n \in 0..MaxSignatures}

Document(readable, json, signedForm, signed, signaturesForm, signatures) ==
  [readable |-> readable, json |-> json, signedForm |-> signedForm, signed |-> signed,
   signaturesForm |-> signaturesForm, signatures |-> signatures]

AnyObject == SignedObject(StringVal(LinkType), Step1, MapVal(<<>>), EchoHi, Absent)
NoDocument == Document(FALSE, "none", "absent", AnyObject, "absent", <<>>)

\* the files Load is given: well-formed documents, and files that cannot be
\* read, are no JSON object, or lack "signed" or "signatures"
Documents ==
  {Document(TRUE, "object", "object", AnyObject, "array", sigs) : sigs \in SignatureLists(AnyObject)}
  \cup UNION {{Document(TRUE, "object", "object", o, "array", sigs) :
                  sigs \in {<<>>, <<SignatureOf(MainSigner(1),
                                                Marshal(SignedValue(DecodedSigned(o))))>>}} :
                o \in SignedObjects}
  \* a link signed elsewhere, over bytes that hold the newline as it is
  \cup {Document(TRUE, "object", "object", TwoLines, "array",
                 <<SignatureOf(MainSigner(1), _encode_canonical(SignedValue(DecodedSigned(TwoLines))))>>)}
  \cup {Document(TRUE, "object", "object", AnyObject, signaturesForm, <<ZeroSignature>>) :
          signaturesForm \in {"array", "absent", "null", "number"}}
  \cup {Document(TRUE, "object", signedForm, AnyObject, signaturesForm, <<ZeroSignature>>) :
          signedForm \in {"absent", "null", "number"}, signaturesForm \in {"array", "absent"}}
  \cup {Document(TRUE, "invalid", "absent", AnyObject, "absent", <<>>), NoDocument}

MaxLoads == 2

\* the last call: its input, how it ended, Signed before it, and the number
\* of Load calls so far
MakeOp(op, doc, k, outcome, signedBefore, loads) ==
  [op |-> op, doc |-> doc, key |-> k, outcome |-> outcome, signedBefore |-> signedBefore,
   loads |-> loads]

MbInit ==
  /\ mb = ZeroMetablock
  /\ mbSigner = ZeroKey
  /\ mbKey = ZeroKey
  /\ mbOp = MakeOp("new", NoDocument, ZeroKey, "none", NilSigned, 0)

\* mb.Load(path), on a new Metablock or on one loaded before
MbLoad ==
  /\ mbOp.op \in {"new", "Load"}
  /\ mbOp.loads < MaxLoads
  /\ \E doc \in Documents :
       \E r \in {MetablockLoad(mb, doc)} :
         /\ mb' = r.mb
         /\ mbSigner' = ZeroKey
         /\ mbOp' = MakeOp("Load", doc, ZeroKey, r.outcome, mb.Signed, mbOp.loads + 1)
         /\ UNCHANGED mbKey

\* key.Load(path), on a new Key or on one loaded before, once the
\* Metablock is what the caller wants verified
MbKeyLoad ==
  /\ mbOp.op # "VerifySignature"
  /\ \E keyFile \in MbKeyFiles :
       /\ mbKey' = KeyLoad(mbKey, keyFile)
       /\ mbOp' = MakeOp("Key.Load", NoDocument, ZeroKey, "none", mb.Signed, mbOp.loads)
       /\ UNCHANGED <<mb, mbSigner>>

\* the caller signs the signable bytes of a loaded Metablock with a key and
\* makes the signature, if one was returned without error, the only one
MbAttachSignature ==
  /\ mbOp.op = "Load"
  /\ mb.Signed # NilSigned
  /\ \E k \in MbSigners, salt \in Salts :
       LET r == GenerateSignature(GetSignableRepresentation(mb), k, [salt |-> salt, fault |-> "none"])
       IN /\ r.err = "nil"
          /\ mb' = [mb EXCEPT !.Signatures = <<r.sig>>]
          /\ mbSigner' = k
          /\ mbOp' = MakeOp("Sign", NoDocument, k, "nil", mb.Signed, mbOp.loads)
          /\ UNCHANGED mbKey

\* the JSON value of Key{}: the fields under their tags, a nil slice as null
ZeroKeyValue ==
  MapVal(<<Entry(<<107, 101, 121, 105, 100>>, StringVal(<<>>)),
           Entry(<<107, 101, 121, 105, 100, 95, 104, 97, 115, 104, 95, 97, 108, 103, 111, 114,
                   105, 116, 104, 109, 115>>, NilVal),
           Entry(<<107, 101, 121, 116, 121, 112, 101>>, StringVal(<<>>)),
           Entry(<<107, 101, 121, 118, 97, 108>>,
                 MapVal(<<Entry(<<112, 114, 105, 118, 97, 116, 101>>, StringVal(<<>>)),
                          Entry(<<112, 117, 98, 108, 105, 99>>, StringVal(<<>>))>>)),
           Entry(<<115, 99, 104, 101, 109, 101>>, StringVal(<<>>))>>)

\* values a caller may assign to a field of the Link or Layout in Signed
FieldChanges(signed) ==
  CASE signed.variant = "Link" ->
         {[signed EXCEPT !.Name = <<115, 116, 101, 112, 50>>],
          [signed EXCEPT !.Command = ListVal(<<StringVal(<<108, 115>>)>>)]}
    [] signed.variant = "Layout" ->
         {[signed EXCEPT !.Keys = MapVal(<<Entry(<<107>>, ZeroKeyValue)>>)],
          [signed EXCEPT !.expires = <<50, 48, 51, 48>>],
          [signed EXCEPT !.readme = <<114>>]}
    [] OTHER -> {}

\* the caller assigns to one field of the struct held in mb.Signed
MbSetField ==
  /\ mbOp.op = "Load"
  /\ \E signed \in FieldChanges(mb.Signed) :
       /\ signed # mb.Signed
       /\ mb' = [mb EXCEPT !.Signed = signed]
       /\ mbOp' = MakeOp("SetField", NoDocument, ZeroKey, "none", mb.Signed, mbOp.loads)
       /\ UNCHANGED <<mbSigner, mbKey>>

\* mb.VerifySignature(key), with the Key the caller loaded, or with another
\* Key when the caller loaded none
MbVerifySignature ==
  /\ mbOp.op # "VerifySignature"
  /\ \E k \in IF mbKey = ZeroKey THEN MbVerifyKeys ELSE {mbKey} :
       /\ mbOp' = MakeOp("VerifySignature", NoDocument, k, MetablockVerifySignature(mb, k),
                         mb.Signed, mbOp.loads)
       /\ UNCHANGED <<mb, mbSigner, mbKey>>

MbNext == MbLoad \/ MbKeyLoad \/ MbAttachSignature \/ MbSetField \/ MbVerifySignature

InitMb == MbInit /\ EncIdle /\ KeyIdle /\ SgIdle
NextMb == MbNext /\ UNCHANGED <<encVars, keyVars, sgVars>>
SpecMb == InitMb /\ [][NextMb]_vars

NoSignatureForKey == "panic: No signature found for key"
InvalidSignature == "panic: Signature verification failed"
VerificationPassed == "Signature verification passed"
UnknownDocumentType ==
  "panic: The '_type' of the 'signed' part must be one of 'link' or 'layout'"

\* some entry of the Metablock's signatures carries the KeyId of k
HasEntryFor(m, k) == \E i \in 1..Len(m.Signatures) : m.Signatures[i].KeyId = k.KeyId

\* C2: Metablock.VerifySignature ends with "no signature for key" when no
\* entry of Signatures carries the KeyId of the key, and never ends that way
\* when some entry carries it.
C2_NoSignatureForKeyIffNoEntry ==
  mbOp.op = "VerifySignature" =>
    (mbOp.outcome = NoSignatureForKey <=> ~HasEntryFor(mb, mbOp.key))

\* the Metablock holds exactly the signature of Signed that k made: the one
\* a caller attached over the signable bytes, or the one of a loaded document
\* over the canonical encoding of its "signed" part
SignedBy(k) ==
  /\ mb.Signed # NilSigned
  /\ \/ mbSigner = k
     \/ /\ mbSigner = ZeroKey
        /\ mb.Signatures = <<SignatureOf(k, _encode_canonical(SignedValue(mb.Signed)))>>

\* k holds a public key
HoldsPublicKey(k) == ParsedPublic(k).err = "nil" /\ ParsedPublic(k).key.role = "public"

\* C3: a Metablock signed by K, holding exactly that signature, verifies
\* with K's public key, and VerifySignature with any other public key fails
\* with InvalidSignature.
C3_OtherKeyIsInvalidSignature ==
  \A k \in MbSigners :
    (mbOp.op = "VerifySignature" /\ SignedBy(k)) =>
      IF HoldsPublicKey(mbOp.key) /\ ParsedPublic(mbOp.key).key = ParsedPublic(PublicForm(k)).key
        THEN mbOp.outcome = VerificationPassed
      ELSE HoldsPublicKey(mbOp.key) => mbOp.outcome = InvalidSignature

\* the document of the last Load is a JSON object with the members "signed"
\* and "signatures", whatever their values
LoadedBothFields ==
  /\ mbOp.op = "Load"
  /\ mbOp.doc.readable
  /\ mbOp.doc.json = "object"
  /\ mbOp.doc.signedForm # "absent"
  /\ mbOp.doc.signaturesForm # "absent"

\* signed["_type"] of the document of the last Load
LoadedType == IF mbOp.doc.signedForm = "object" THEN mbOp.doc.signed.type ELSE Absent

\* C4: Load makes Signed a Link exactly when _type is "link" and a Layout
\* exactly when _type is "layout"; with any other _type, or none, Load fails
\* with the unknown-type outcome and Signed is what it was before the call.
C4_LoadResolvesByType ==
  LoadedBothFields =>
    /\ LoadedType = StringVal(LinkType) =>
         mbOp.outcome = "ok" /\ mb.Signed.variant = "Link"
    /\ LoadedType = StringVal(LayoutType) =>
         mbOp.outcome = "ok" /\ mb.Signed.variant = "Layout"
    /\ LoadedType \notin {StringVal(LinkType), StringVal(LayoutType)} =>
         mbOp.outcome = UnknownDocumentType /\ mb.Signed = mbOp.signedBefore

\* C5: Load fails with MalformedDocument when the file cannot be read, is
\* no JSON object, or lacks "signed" or "signatures".
C5_MalformedDocument ==
  (/\ mbOp.op = "Load"
   /\ \/ ~mbOp.doc.readable
      \/ mbOp.doc.json # "object"
      \/ mbOp.doc.signedForm = "absent"
      \/ mbOp.doc.signaturesForm = "absent")
  => mbOp.outcome = "MalformedDocument"

\* C12: GetSignableRepresentation gives the canonical encoding of the
\* current Signed alone: attaching a signature leaves the bytes as they
\* were, and an assignment that changes a field of the Link or Layout in
\* Signed, expires and readme of a Layout included, changes the bytes.
C12_SignableFollowsSigned ==
  /\ mbOp.op = "Sign" =>
       GetSignableRepresentation(mb) = GetSignableRepresentation([mb EXCEPT !.Signatures = <<>>])
  /\ mbOp.op = "SetField" =>
       GetSignableRepresentation(mb)
         # GetSignableRepresentation([mb EXCEPT !.Signed = mbOp.signedBefore])

\* a step inside the last GenerateSignature call failed: PEM decoding or
\* parsing of the private part, the rsa or ecdsa signing primitive, the
\* ASN.1 marshalling of r and s, or the hex decoding of an ed25519 private part
SigningStepFailed ==
  \/ /\ DeclaredFamily(sgKey) \in {"rsa", "ecdsa"}
     /\ \/ ~PemDecode(sgKey.KeyVal.Private).ok
        \/ ParseKey(PemDecode(sgKey.KeyVal.Private).Bytes).err # "nil"
        \/ /\ sgRnd.fault = "sign"
           /\ PrivateFamily(sgKey) = DeclaredFamily(sgKey)
        \/ /\ sgRnd.fault = "marshal"
           /\ DeclaredFamily(sgKey) = "ecdsa"
           /\ PrivateFamily(sgKey) = "ecdsa"
  \/ /\ DeclaredFamily(sgKey) = "ed25519"
     /\ DecodeString(sgKey.KeyVal.Private).err # "nil"

\* C13: GenerateSignature returns a nil error only with an initialized
\* signature, a non-empty hex Sig and the KeyId of the key; when a step
\* inside it fails it returns the zero Signature and an error that is not nil.
C13_NilErrorOnlyWithSignature ==
  sgOp = "signed" =>
    /\ sgErr = "nil" =>
         /\ sgSig.Sig # <<>>
         /\ IsLowerHex(sgSig.Sig)
         /\ sgSig.KeyId = sgKey.KeyId
    /\ SigningStepFailed => (sgErr # "nil" /\ sgSig = ZeroSignature)

\* the positions of the Metablock's signatures that carry the KeyId of k
MatchingEntries(m, k) == {i \in 1..Len(m.Signatures) : m.Signatures[i].KeyId = k.KeyId}

\* the least of a non-empty set of positions
FirstOf(S) == CHOOSE i \in S : \A j \in S : i <= j

\* C14: Metablock.VerifySignature checks one signature, the first entry of
\* Signatures whose keyid is that of the key: the outcome is that of the
\* cryptographic check of this entry alone, whatever later entries hold, and
\* "no signature for key" when no entry matches or the first matching entry
\* is the zero Signature.
C14_FirstMatchingEntryDecides ==
  mbOp.op = "VerifySignature" =>
    LET matching == MatchingEntries(mb, mbOp.key)
    IN IF matching = {} \/ mb.Signatures[FirstOf(matching)] = ZeroSignature
         THEN mbOp.outcome = NoSignatureForKey
       ELSE mbOp.outcome = MainVerifySignature(mbOp.key, mb.Signatures[FirstOf(matching)],
                                               GetSignableRepresentation(mb))

\* two entries carry the KeyId of the key, the first does not verify, the
\* second would: VerifySignature ended with the failure of the first
C14_Witness ==
  /\ mbOp.op = "VerifySignature"
  /\ Len(mb.Signatures) >= 2
  /\ mb.Signatures[1].KeyId = mbOp.key.KeyId
  /\ mb.Signatures[2].KeyId = mbOp.key.KeyId
  /\ MainVerifySignature(mbOp.key, mb.Signatures[2], GetSignableRepresentation(mb))
       = VerificationPassed
  /\ mbOp.outcome = InvalidSignature

====
